---- MODULE Spec2Model ----
(***************************************************************************)
(* ResearchPaperFinder: two-pass duplicate detection (exact title, then    *)
(* fuzzy title with an anchor-only scan), link merging and final ranking,  *)
(* modelled from research_paper_finder.py.                                 *)
(*                                                                         *)
(* Papers are Python dicts with identity: the model keeps them in a heap   *)
(* indexed by object id, and every list or dict of papers holds ids, so    *)
(* that in-place mutation is visible through every alias.  A dict is a     *)
(* function whose DOMAIN is its key set.  A title is a sequence of         *)
(* one-character strings.                                                  *)
(***************************************************************************)
EXTENDS Integers, Sequences, FiniteSets, TLC

\* Largest number of papers handed to detect_duplicates.
MaxRecords == 3

(***************************************************************************)
(* Strings                                                                 *)
(***************************************************************************)

\* str.lower() on the characters that occur in the title pool.
LowerOf == [H |-> "h", P |-> "p", V |-> "v", C |-> "c", I |-> "i"]

LowerChar(c) == IF c \in DOMAIN LowerOf THEN LowerOf[c] ELSE c

Lower(s) == [n \in 1..Len(s) |-> LowerChar(s[n])]

\* str.strip(): drop leading and trailing whitespace.
RECURSIVE LStrip(_)
LStrip(s) == IF s # <<>> /\ Head(s) = " " THEN LStrip(Tail(s)) ELSE s

RECURSIVE RStrip(_)
RStrip(s) ==
    IF s # <<>> /\ s[Len(s)] = " " THEN RStrip(SubSeq(s, 1, Len(s) - 1)) ELSE s

Strip(s) == RStrip(LStrip(s))

(***************************************************************************)
(* difflib.SequenceMatcher(None, a, b).ratio()                             *)
(* Positions are 1-based; a range lo..hi is half open as in Python.        *)
(***************************************************************************)

\* Length of the common run of a and b that starts at a[ai], b[bj].
RECURSIVE RunLen(_, _, _, _, _, _)
RunLen(a, b, ai, bj, ahi, bhi) ==
    IF ai >= ahi \/ bj >= bhi THEN 0
    ELSE IF a[ai] # b[bj] THEN 0
    ELSE 1 + RunLen(a, b, ai + 1, bj + 1, ahi, bhi)

\* The longest block that starts at a[ai] and at b[bj] or later; a block
\* replaces the best one so far only when it is longer.
RECURSIVE LongestInRow(_, _, _, _, _, _, _)
LongestInRow(a, b, ai, bj, ahi, bhi, best) ==
    IF bj >= bhi THEN best
    ELSE LET size == RunLen(a, b, ai, bj, ahi, bhi)
         IN  IF size > best.size
             THEN LongestInRow(a, b, ai, bj + 1, ahi, bhi,
                               [a |-> ai, b |-> bj, size |-> size])
             ELSE LongestInRow(a, b, ai, bj + 1, ahi, bhi, best)

\* The longest block that starts at a[ai] or later.
RECURSIVE LongestFrom(_, _, _, _, _, _, _)
LongestFrom(a, b, ai, ahi, blo, bhi, best) ==
    IF ai >= ahi THEN best
    ELSE LET row == LongestInRow(a, b, ai, blo, ahi, bhi, best)
         IN  IF row.size >= best.size
             THEN LongestFrom(a, b, ai + 1, ahi, blo, bhi, row)
             ELSE best

\* find_longest_match: the longest block, earliest in a, then earliest in b.
FindLongestMatch(a, b, alo, ahi, blo, bhi) ==
    LongestFrom(a, b, alo, ahi, blo, bhi, [a |-> alo, b |-> blo, size |-> 0])

\* get_matching_blocks: total size of the blocks found by recursing on the
\* pieces left and right of the longest match.
RECURSIVE MatchedSize(_, _, _, _, _, _)
MatchedSize(a, b, alo, ahi, blo, bhi) ==
    LET m == FindLongestMatch(a, b, alo, ahi, blo, bhi)
    IN  IF m.size = 0 THEN 0
        ELSE m.size
             + MatchedSize(a, b, alo, m.a, blo, m.b)
             + MatchedSize(a, b, m.a + m.size, ahi, m.b + m.size, bhi)

\* ratio(): 2.0 * matches / length, 1.0 when both are empty; kept as a
\* fraction num/den.
Ratio(a, b) ==
    LET length == Len(a) + Len(b)
    IN  IF length = 0 THEN [num |-> 1, den |-> 1]
        ELSE [num |-> 2 * MatchedSize(a, b, 1, Len(a) + 1, 1, Len(b) + 1),
              den |-> length]

(***************************************************************************)
(* Inputs                                                                  *)
(***************************************************************************)

TitleA  == <<"h","p","v"," ","c","o","l","p","o","s","c","o","p","y"," ",
             "i","m","a","g","e">>
TitleA2 == <<" ","H","P","V"," ","C","o","l","p","o","s","c","o","p","y"," ",
             "I","m","a","g","e">>
TitleB  == <<"h","p","v"," ","c","o","l","p","o","s","c","o","p","y"," ",
             "i","m","a","g","o">>
TitleC  == <<"h","p","v"," ","k","o","l","p","o","z","c","o","p","y"," ",
             "i","m","a","g","o">>

TitlePool == {TitleA, TitleA2, TitleB, TitleC}

\* title1.lower(), title2.lower() and the ratio, for the pairs made of
\* title1 and each of the first n titles of a list.
RECURSIVE RatioRow(_, _, _)
RatioRow(title1, list, n) ==
    IF n = 0 THEN [p \in {} |-> p]
    ELSE (<<title1, list[n]>> :> Ratio(Lower(title1), Lower(list[n])))
         @@ RatioRow(title1, list, n - 1)

\* The same for each of the first m titles as title1.
RECURSIVE RatioTable(_, _)
RatioTable(list, m) ==
    IF m = 0 THEN [p \in {} |-> p]
    ELSE RatioRow(list[m], list, Len(list)) @@ RatioTable(list, m - 1)

\* The ratio of every pair of titles of the pool, computed once.
SimTable == RatioTable(<<TitleA, TitleA2, TitleB, TitleC>>, 4)

calculate_similarity(title1, title2) == SimTable[<<title1, title2>>]

(***************************************************************************)
(* Python dicts                                                            *)
(***************************************************************************)

EmptyDict == [x \in {} |-> x]

\* d.update(e): the keys of e overwrite those of d.
update(d, e) == e @@ d

\* d[key] = val
SetItem(d, key, val) == (key :> val) @@ d

\* x.get('relevance_score', 0)
Score(paper) ==
    IF "relevance_score" \in DOMAIN paper THEN paper["relevance_score"] ELSE 0

\* x.get('links', {})
Links(paper) == IF "links" \in DOMAIN paper THEN paper["links"] ELSE EmptyDict

\* Relevance scores given to the papers.
Scores == {3, 5}

\* The link kinds a source record carries.
LinkKinds == {"pdf", "main"}

\* What a source adapter can put into the dict of a hit: a title, a score
\* and the kind of its link; "untitled" stands for the malformed hit
\* without a title.
Hits ==
    [title : TitlePool, relevance_score : Scores, kind : LinkKinds]
    \cup {[untitled |-> TRUE, relevance_score |-> 3, kind |-> "pdf"]}

\* The dict built for hit number r: every adapter sets title, relevance_score
\* and links, and the URL of a hit is its own (r).
Paper(hit, r) ==
    IF "title" \in DOMAIN hit
    THEN [title |-> hit.title, relevance_score |-> hit.relevance_score,
          links |-> (hit.kind :> r)]
    ELSE [relevance_score |-> hit.relevance_score, links |-> (hit.kind :> r)]

VARIABLES
    heap,               \* object id -> paper dict
    given,              \* the heap as it was when detect_duplicates was called
    results,            \* argument of detect_duplicates: list of object ids
    pc,                 \* "pass1", "pass2", "returned", "sorted", "raised"
    k,                  \* position of the first loop in results
    unique_by_title,    \* insertion-ordered dict: list of [key, paper]
    titles,             \* list(unique_by_title.values())
    i,                  \* position of the outer loop of the second pass
    processed_indices,
    clusters,           \* the duplicates list of every outer iteration so far
    fuzzy_unique,       \* list returned by detect_duplicates
    self_results,       \* self.results
    call                \* 1: first call, 2: call on the first call's output

vars == <<heap, given, results, pc, k, unique_by_title, titles, i,
          processed_indices, clusters, fuzzy_unique, self_results, call>>

Range(s) == {s[n] : n \in 1..Len(s)}

\* Entry of detect_duplicates(results) with the locals of both passes.
Enter(h, res) ==
    /\ given' = h
    /\ results' = res
    /\ pc' = "pass1"
    /\ k' = 1
    /\ unique_by_title' = <<>>
    /\ titles' = <<>>
    /\ i' = 1
    /\ processed_indices' = {}
    /\ clusters' = <<>>
    /\ fuzzy_unique' = <<>>

Init ==
    \E n \in 0..MaxRecords :
        /\ \E hits \in [1..n -> Hits] :
                heap = [r \in 1..n |-> Paper(hits[r], r)]
        /\ given = heap
        /\ results = [r \in 1..n |-> r]
        /\ pc = "pass1"
        /\ k = 1
        /\ unique_by_title = <<>>
        /\ titles = <<>>
        /\ i = 1
        /\ processed_indices = {}
        /\ clusters = <<>>
        /\ fuzzy_unique = <<>>
        /\ self_results = <<>>
        /\ call = 1

(***************************************************************************)
(* First pass: exact title matches                                         *)
(***************************************************************************)

\* title = paper['title'].lower().strip()
TitleKey(paper) == Strip(Lower(paper["title"]))

\* Position of a key in the dict, 0 when absent.
KeyIndex(ubt, key) ==
    IF \E n \in 1..Len(ubt) : ubt[n].key = key
    THEN CHOOSE n \in 1..Len(ubt) : ubt[n].key = key
    ELSE 0

\* Merge links if possible: the links dict of the stored paper is updated
\* in place.
MergeLinksInPlace(h, kept, paper) ==
    IF "links" \in DOMAIN h[paper] /\ "links" \in DOMAIN h[kept]
    THEN [h EXCEPT ![kept] =
            SetItem(h[kept], "links", update(h[kept]["links"], Links(h[paper])))]
    ELSE h

\* Keep the entry with the higher relevance score.
ReplacesKept(h, kept, paper) == Score(h[paper]) > Score(h[kept])

\* One iteration of "for paper in results"; paper['title'] raises KeyError
\* for a paper without a title, and nothing catches it.
Pass1Step ==
    /\ pc = "pass1"
    /\ k <= Len(results)
    /\ LET paper == results[k] IN
       IF "title" \notin DOMAIN heap[paper]
       THEN /\ pc' = "raised"
            /\ UNCHANGED <<heap, k, unique_by_title>>
       ELSE LET title == TitleKey(heap[paper])
                n == KeyIndex(unique_by_title, title)
            IN  /\ pc' = pc
                /\ k' = k + 1
                /\ IF n # 0
                   THEN LET kept == unique_by_title[n].paper
                            h1 == MergeLinksInPlace(heap, kept, paper)
                        IN  /\ heap' = h1
                            /\ unique_by_title' =
                                 IF ReplacesKept(h1, kept, paper)
                                 THEN [unique_by_title EXCEPT ![n].paper = paper]
                                 ELSE unique_by_title
                   ELSE /\ heap' = heap
                        /\ unique_by_title' =
                             Append(unique_by_title,
                                    [key |-> title, paper |-> paper])
    /\ UNCHANGED <<given, results, titles, i, processed_indices, clusters,
                   fuzzy_unique, self_results, call>>

\* titles = list(unique_by_title.values())
StartPass2 ==
    /\ pc = "pass1"
    /\ k > Len(results)
    /\ pc' = "pass2"
    /\ titles' = [n \in 1..Len(unique_by_title) |-> unique_by_title[n].paper]
    /\ UNCHANGED <<heap, given, results, k, unique_by_title, i,
                   processed_indices, clusters, fuzzy_unique, self_results,
                   call>>

(***************************************************************************)
(* Second pass: fuzzy title matches                                        *)
(***************************************************************************)

\* The threshold test with >= in place of >.
IsDuplicateAtLeast(similarity) == similarity.num * 100 >= 85 * similarity.den

\* if similarity > 0.85, on the fraction num/den
IsDuplicate(similarity) == similarity.num * 100 > 85 * similarity.den

\* similarity = calculate_similarity(paper1['title'], paper2['title']);
\* if similarity > 0.85
similarity_above(h, ts, anchor, j) ==
    IsDuplicate(calculate_similarity(h[ts[anchor]]["title"],
                                     h[ts[j]]["title"]))

\* The inner loop without "if j in processed_indices: continue".
RECURSIVE ScanLaterRejoin(_, _, _, _, _, _)
ScanLaterRejoin(h, ts, anchor, j, duplicates, processed) ==
    IF j > Len(ts) THEN [duplicates |-> duplicates, processed |-> processed]
    ELSE IF similarity_above(h, ts, anchor, j)
    THEN ScanLaterRejoin(h, ts, anchor, j + 1, Append(duplicates, j),
                         processed \cup {j})
    ELSE ScanLaterRejoin(h, ts, anchor, j + 1, duplicates, processed)

\* The inner loop without "processed_indices.add(j)".
RECURSIVE ScanLaterUnmarked(_, _, _, _, _, _)
ScanLaterUnmarked(h, ts, anchor, j, duplicates, processed) ==
    IF j > Len(ts) THEN [duplicates |-> duplicates, processed |-> processed]
    ELSE IF j \in processed
    THEN ScanLaterUnmarked(h, ts, anchor, j + 1, duplicates, processed)
    ELSE IF similarity_above(h, ts, anchor, j)
    THEN ScanLaterUnmarked(h, ts, anchor, j + 1, Append(duplicates, j),
                           processed)
    ELSE ScanLaterUnmarked(h, ts, anchor, j + 1, duplicates, processed)

\* The inner loop "for j in range(i+1, len(titles))" from position j on,
\* for the anchor at position anchor: yields the duplicates list (as
\* positions of titles) and processed_indices.
RECURSIVE ScanLater(_, _, _, _, _, _)
ScanLater(h, ts, anchor, j, duplicates, processed) ==
    IF j > Len(ts) THEN [duplicates |-> duplicates, processed |-> processed]
    ELSE IF j \in processed
    THEN ScanLater(h, ts, anchor, j + 1, duplicates, processed)
    ELSE IF similarity_above(h, ts, anchor, j)
    THEN ScanLater(h, ts, anchor, j + 1, Append(duplicates, j),
                   processed \cup {j})
    ELSE ScanLater(h, ts, anchor, j + 1, duplicates, processed)

\* max(duplicates, key=score) from position n on: a later paper replaces
\* the best one so far only when its score is larger.
RECURSIVE MaxFrom(_, _, _, _)
MaxFrom(h, papers, n, best) ==
    IF n > Len(papers) THEN best
    ELSE IF Score(h[papers[n]]) > Score(h[best])
    THEN MaxFrom(h, papers, n + 1, papers[n])
    ELSE MaxFrom(h, papers, n + 1, best)

\* The last paper with the largest score instead of the first.
RECURSIVE MaxFromLast(_, _, _, _)
MaxFromLast(h, papers, n, best) ==
    IF n > Len(papers) THEN best
    ELSE IF Score(h[papers[n]]) >= Score(h[best])
    THEN MaxFromLast(h, papers, n + 1, papers[n])
    ELSE MaxFromLast(h, papers, n + 1, best)

BestPaperLast(h, papers) == MaxFromLast(h, papers, 2, papers[1])

BestPaper(h, papers) == MaxFrom(h, papers, 2, papers[1])

\* all_links = {}; for dup in duplicates: all_links.update(dup links)
RECURSIVE AllLinks(_, _)
AllLinks(h, papers) ==
    IF papers = <<>> THEN EmptyDict
    ELSE LET last == papers[Len(papers)]
             before == AllLinks(h, SubSeq(papers, 1, Len(papers) - 1))
         IN  IF "links" \in DOMAIN h[last]
             THEN update(before, Links(h[last]))
             ELSE before

\* Merge duplicates and keep the one with highest score: the heap after the
\* two assignments to best_paper.
MergeInto(h, best_paper, papers) ==
    LET all_links == AllLinks(h, papers)
        linked == IF DOMAIN all_links # {}
                  THEN SetItem(h[best_paper], "links", all_links)
                  ELSE h[best_paper]
    IN  [h EXCEPT ![best_paper] =
            SetItem(linked, "duplicate_count", Len(papers))]

\* if i in processed_indices: continue
Pass2Skip ==
    /\ pc = "pass2"
    /\ i <= Len(titles)
    /\ i \in processed_indices
    /\ i' = i + 1
    /\ UNCHANGED <<heap, given, results, pc, k, unique_by_title, titles,
                   processed_indices, clusters, fuzzy_unique, self_results,
                   call>>

\* One iteration of the outer loop for an unprocessed position i: collect
\* the later papers similar to titles[i], then merge or pass through.
Pass2Cluster ==
    /\ pc = "pass2"
    /\ i <= Len(titles)
    /\ i \notin processed_indices
    /\ LET scan == ScanLater(heap, titles, i, i + 1, <<i>>,
                             processed_indices \cup {i})
           duplicates == [n \in 1..Len(scan.duplicates) |->
                             titles[scan.duplicates[n]]]
           best_paper == BestPaper(heap, duplicates)
       IN  /\ processed_indices' = scan.processed
           /\ clusters' = Append(clusters, scan.duplicates)
           /\ IF Len(duplicates) > 1
              THEN /\ heap' = MergeInto(heap, best_paper, duplicates)
                   /\ fuzzy_unique' = Append(fuzzy_unique, best_paper)
              ELSE /\ heap' = heap
                   /\ fuzzy_unique' = Append(fuzzy_unique, titles[i])
    /\ i' = i + 1
    /\ UNCHANGED <<given, results, pc, k, unique_by_title, titles,
                   self_results, call>>

\* return fuzzy_unique
Return ==
    /\ pc = "pass2"
    /\ i > Len(titles)
    /\ pc' = "returned"
    /\ UNCHANGED <<heap, given, results, k, unique_by_title, titles, i,
                   processed_indices, clusters, fuzzy_unique, self_results,
                   call>>

(***************************************************************************)
(* search_all_sources: ranking                                             *)
(***************************************************************************)

\* Insert paper into a list sorted by score descending, behind every paper
\* whose score is at least its own.
RECURSIVE InsertByScore(_, _, _)
InsertByScore(h, sorted, paper) ==
    IF sorted = <<>> THEN <<paper>>
    ELSE IF Score(h[Head(sorted)]) >= Score(h[paper])
    THEN <<Head(sorted)>> \o InsertByScore(h, Tail(sorted), paper)
    ELSE <<paper>> \o sorted

\* Insert paper in front of the papers with the same score.
RECURSIVE InsertInFront(_, _, _)
InsertInFront(h, sorted, paper) ==
    IF sorted = <<>> THEN <<paper>>
    ELSE IF Score(h[Head(sorted)]) > Score(h[paper])
    THEN <<Head(sorted)>> \o InsertInFront(h, Tail(sorted), paper)
    ELSE <<paper>> \o sorted

\* A sort by score descending that reverses the papers of equal score.
RECURSIVE SortByRelevanceUnstable(_, _)
SortByRelevanceUnstable(h, papers) ==
    IF papers = <<>> THEN <<>>
    ELSE InsertInFront(h,
             SortByRelevanceUnstable(h, SubSeq(papers, 1, Len(papers) - 1)),
             papers[Len(papers)])

\* list.sort(key=score, reverse=True): stable, equal scores keep their order.
RECURSIVE SortByRelevance(_, _)
SortByRelevance(h, papers) ==
    IF papers = <<>> THEN <<>>
    ELSE InsertByScore(h,
                       SortByRelevance(h, SubSeq(papers, 1, Len(papers) - 1)),
                       papers[Len(papers)])

\* unique_results.sort(...); self.results = unique_results.  The list is
\* sorted in place, so the returned list and self.results are one object.
SortResults ==
    /\ pc = "returned"
    /\ pc' = "sorted"
    /\ fuzzy_unique' = SortByRelevance(heap, fuzzy_unique)
    /\ self_results' = fuzzy_unique'
    /\ UNCHANGED <<heap, given, results, k, unique_by_title, titles, i,
                   processed_indices, clusters, call>>

\* detect_duplicates applied to the list a first call returned.
Reapply ==
    /\ pc = "returned"
    /\ call = 1
    /\ call' = 2
    /\ Enter(heap, fuzzy_unique)
    /\ UNCHANGED <<heap, self_results>>

Next ==
    \/ Pass1Step
    \/ StartPass2
    \/ Pass2Skip
    \/ Pass2Cluster
    \/ Return
    \/ SortResults
    \/ Reapply

Spec == Init /\ [][Next]_vars

(***************************************************************************)
(* Properties                                                              *)
(***************************************************************************)

\* similarity > 0.85, strictly, on the fraction num/den.
Over085(similarity) == similarity.num * 100 > 85 * similarity.den

\* The papers of the input whose normalized title is that of paper rep:
\* its exact-title group.
GroupOf(rep) ==
    {r \in Range(results) :
        /\ "title" \in DOMAIN given[r]
        /\ Strip(Lower(given[r]["title"])) = Strip(Lower(given[rep]["title"]))}

\* All input papers merged into the output of the cluster c (a list of
\* positions of titles).
MergedInto(c) == UNION {GroupOf(titles[c[m]]) : m \in 1..Len(c)}

GivenScore(r) == given[r]["relevance_score"]

GivenLinks(r) == given[r]["links"]

InGroupOf(rep, r) == r \in GroupOf(rep)

\* The papers merged into the output of cluster c in processing order:
\* cluster members in scan order, each followed by its group in input order.
RECURSIVE ProcessingOrder(_)
ProcessingOrder(c) ==
    IF c = <<>> THEN <<>>
    ELSE SelectSeq(results, LAMBDA r : InGroupOf(titles[Head(c)], r))
         \o ProcessingOrder(Tail(c))

\* C1: once detect_duplicates has returned, the links of every output paper
\* contain every link key of every input paper merged into it.
C1_NoLinkKeyDropped ==
    pc = "returned" =>
        \A q \in 1..Len(clusters) :
            \A r \in MergedInto(clusters[q]) :
                DOMAIN GivenLinks(r) \subseteq DOMAIN Links(heap[fuzzy_unique[q]])

\* C2: once detect_duplicates has returned, every output paper carries a
\* duplicate_count equal to the number of input papers merged into it (1 when
\* nothing was merged), so the counts sum to the length of the input.
C2_DuplicateCountIsMergedCount ==
    pc = "returned" =>
        \A q \in 1..Len(clusters) :
            /\ "duplicate_count" \in DOMAIN heap[fuzzy_unique[q]]
            /\ heap[fuzzy_unique[q]]["duplicate_count"]
                 = Cardinality(MergedInto(clusters[q]))

\* The titles of two papers are similar.
SimilarTitles(r1, r2) ==
    Over085(calculate_similarity(heap[r1]["title"], heap[r2]["title"]))

\* Similarity is reflexive and symmetric on the titles of the first input.
ReflexiveSymmetric ==
    /\ \A r \in DOMAIN heap : "title" \in DOMAIN heap[r]
    /\ \A r \in DOMAIN heap : SimilarTitles(r, r)
    /\ \A r1, r2 \in DOMAIN heap : SimilarTitles(r1, r2) => SimilarTitles(r2, r1)

\* Similarity is transitive on the titles of the first input.
Transitive ==
    \A r1, r2, r3 \in DOMAIN heap :
        SimilarTitles(r1, r2) /\ SimilarTitles(r2, r3) => SimilarTitles(r1, r3)

\* The call merged nothing: no exact-title group and no cluster has a
\* second member, and as many papers are returned as were given.
NoFurtherMerge ==
    /\ Len(unique_by_title) = Len(results)
    /\ \A q \in 1..Len(clusters) : Len(clusters[q]) = 1
    /\ Len(fuzzy_unique) = Len(results)

\* C3 as stated: for a reflexive and symmetric similarity, detect_duplicates
\* applied to its own output merges nothing.
C3_Idempotent ==
    (call = 2 /\ pc = "returned" /\ ReflexiveSymmetric) => NoFurtherMerge

\* C3 amended: when similarity is also transitive on the titles of the
\* input, detect_duplicates applied to its own output merges nothing.
C3_IdempotentIfTransitive ==
    (call = 2 /\ pc = "returned" /\ ReflexiveSymmetric /\ Transitive)
        => NoFurtherMerge

C3_Witness ==
    /\ call = 2
    /\ pc = "returned"
    /\ ReflexiveSymmetric
    /\ Transitive
    /\ Cardinality(DOMAIN heap) = 3
    /\ Len(results) = 2
    /\ Len(clusters) = 2

\* Position of a paper in a list without repetitions.
Pos(list, paper) == CHOOSE n \in 1..Len(list) : list[n] = paper

\* out is the list inp ordered by score descending, papers of equal score in
\* the order they have in inp.
IsStableRanking(h, inp, out) ==
    /\ Len(out) = Len(inp)
    /\ Range(out) = Range(inp)
    /\ \A m, n \in 1..Len(out) :
          m < n =>
            \/ Score(h[out[m]]) > Score(h[out[n]])
            \/ /\ Score(h[out[m]]) = Score(h[out[n]])
               /\ Pos(inp, out[m]) < Pos(inp, out[n])

\* C4: the sort of search_all_sources orders the list detect_duplicates
\* returned by score descending and keeps papers of equal score in the
\* order detect_duplicates emitted them; the result is self.results.
C4_RankingStable ==
    [][(pc = "returned" /\ pc' = "sorted")
          => /\ IsStableRanking(heap, fuzzy_unique, self_results')
             /\ fuzzy_unique' = self_results']_vars

C4_Witness ==
    /\ pc = "sorted"
    /\ Len(self_results) = 2
    /\ Score(heap[self_results[1]]) = Score(heap[self_results[2]])
    /\ self_results[1] \in {titles[clusters[1][m]] : m \in 1..Len(clusters[1])}

\* The title at position n of the second pass.
TitleAt(n) == heap[titles[n]]["title"]

\* The positions assigned to the clusters before cluster number q.
AssignedBefore(q) == UNION {Range(clusters[p]) : p \in 1..(q - 1)}

\* C5: a position joins a cluster exactly when it is the anchor, or lies
\* behind the anchor, is not yet assigned and its title has similarity
\* > 0.85 (strictly) to the anchor's title; so for the titles A, B, C with
\* sim(A,B) > 0.85, sim(B,C) > 0.85 and sim(A,C) = 0.85 the clusters are
\* {A,B} and {C}.
C5_AnchorOnly ==
    /\ pc \in {"pass2", "returned", "sorted"} =>
         \A q \in 1..Len(clusters) :
            LET anchor == clusters[q][1]
            IN  \A j \in 1..Len(titles) :
                   j \in Range(clusters[q]) <=>
                      \/ j = anchor
                      \/ /\ j > anchor
                         /\ j \notin AssignedBefore(q)
                         /\ Over085(calculate_similarity(TitleAt(anchor),
                                                         TitleAt(j)))
    /\ (/\ pc = "returned"
        /\ Len(titles) = 3
        /\ TitleAt(1) = TitleA /\ TitleAt(2) = TitleB /\ TitleAt(3) = TitleC)
         => clusters = << <<1, 2>>, <<3>> >>

C5_Witness ==
    /\ pc = "returned"
    /\ call = 1
    /\ Len(titles) = 3
    /\ TitleAt(1) = TitleA /\ TitleAt(2) = TitleB /\ TitleAt(3) = TitleC
    /\ calculate_similarity(TitleA, TitleC) = [num |-> 34, den |-> 40]
    /\ Over085(calculate_similarity(TitleB, TitleC))
    /\ clusters = << <<1, 2>>, <<3>> >>

\* C6: detect_duplicates never raises, also for a paper without a title.
C6_NeverRaises == pc # "raised"

\* C7: a call leaves every paper of its input as it was given.
C7_InputUnchanged == \A r \in Range(results) : heap[r] = given[r]

\* paper is the first one of list with the largest given score.
IsFirstMax(list, paper) ==
    \E n \in 1..Len(list) :
        /\ list[n] = paper
        /\ \A m \in 1..Len(list) : GivenScore(list[m]) <= GivenScore(paper)
        /\ \A m \in 1..(n - 1) : GivenScore(list[m]) < GivenScore(paper)

\* C8: the paper kept for an exact-title group is the first of the group with
\* the largest score, the paper emitted for a cluster is the first member in
\* cluster order with the largest score; so the score of an output paper is
\* the largest score of the input papers merged into it, and its title and
\* score are those it was given.
C8_WinnerIsFirstMax ==
    pc = "returned" =>
        \A q \in 1..Len(clusters) :
            LET c == clusters[q]
                members == [m \in 1..Len(c) |-> titles[c[m]]]
                winner == fuzzy_unique[q]
            IN  /\ \A m \in 1..Len(c) :
                      IsFirstMax(SelectSeq(results,
                                     LAMBDA r : InGroupOf(members[m], r)),
                                 members[m])
                /\ IsFirstMax(members, winner)
                /\ winner \in MergedInto(c)
                /\ \A r \in MergedInto(c) : GivenScore(r) <= Score(heap[winner])
                /\ Score(heap[winner]) = GivenScore(winner)
                /\ heap[winner]["title"] = given[winner]["title"]

C8_Witness ==
    /\ pc = "returned"
    /\ call = 1
    /\ Len(results) = 3
    /\ Len(clusters) = 1
    /\ Len(clusters[1]) = 2
    /\ GivenScore(titles[1]) = GivenScore(titles[2])
    /\ \E r \in Range(results) : GivenScore(r) < GivenScore(titles[1])
    /\ fuzzy_unique = <<titles[1]>>

\* C9: for every link key of an output paper, the value is the one given to
\* the last paper, in processing order, among the merged papers that carry
\* the key.
C9_LastWriterWins ==
    pc = "returned" =>
        \A q \in 1..Len(clusters) :
            LET order == ProcessingOrder(clusters[q])
                out == Links(heap[fuzzy_unique[q]])
            IN  \A key \in DOMAIN out :
                   \E n \in 1..Len(order) :
                      /\ key \in DOMAIN GivenLinks(order[n])
                      /\ out[key] = GivenLinks(order[n])[key]
                      /\ \A m \in (n + 1)..Len(order) :
                            key \notin DOMAIN GivenLinks(order[m])

\* The normalized titles of the input.
GivenKeys == {Strip(Lower(given[r]["title"])) : r \in Range(results)}

\* C10: during the second pass the clusters built so far are pairwise
\* disjoint, their union is processed_indices and one paper of each cluster
\* has been emitted, in order of increasing anchor; when the scan has ended
\* every position is in exactly one cluster, and the output has no paper
\* twice and is no longer than the number of distinct normalized titles,
\* which is at most the length of the input.
C10_ClustersPartition ==
    pc \in {"pass2", "returned"} =>
        /\ \A p, q \in 1..Len(clusters) :
              p < q => /\ Range(clusters[p]) \cap Range(clusters[q]) = {}
                       /\ clusters[p][1] < clusters[q][1]
        /\ \A q \in 1..Len(clusters) :
              /\ Cardinality(Range(clusters[q])) = Len(clusters[q])
              /\ fuzzy_unique[q] \in
                    {titles[clusters[q][m]] : m \in 1..Len(clusters[q])}
        /\ UNION {Range(clusters[q]) : q \in 1..Len(clusters)}
              = processed_indices
        /\ 1..(i - 1) \subseteq processed_indices
        /\ Len(fuzzy_unique) = Len(clusters)
        /\ pc = "returned" =>
              /\ processed_indices = 1..Len(titles)
              /\ Cardinality(Range(fuzzy_unique)) = Len(fuzzy_unique)
              /\ Len(fuzzy_unique) <= Cardinality(GivenKeys)
              /\ Len(titles) = Cardinality(GivenKeys)
              /\ Cardinality(GivenKeys) <= Len(results)

C10_Witness ==
    /\ pc = "returned"
    /\ call = 1
    /\ Len(results) = 3
    /\ clusters = << <<1, 3>>, <<2>> >>

====
